---- MODULE Spec2Model ----
(***************************************************************************)
(* A model of the time-range synchronisation and plotting core of the      *)
(* VeriCold log plotter:                                                   *)
(*   - TimeSpanEdit (src/gui/_time_span_edit.py): the duration text codec  *)
(*     (_value_to_text, validate, the time_delta property, fixup, stepBy,  *)
(*     _on_edit_finished);                                                 *)
(*   - Plot (src/vericold_plotter/gui/_plot.py): the start/end/span        *)
(*     handlers, on_lim_changed, plot, replot, set_line_visible,           *)
(*     auto_range_y, on_view_all_triggered.                                *)
(*                                                                         *)
(* Texts are sequences of one-character strings.  A timedelta is the       *)
(* record Python keeps: days, seconds in 0..86399, microseconds in         *)
(* 0..999999 (days may be negative).  A QDateTime is a number of           *)
(* milliseconds counted from start_time.minimumDateTime().                 *)
(***************************************************************************)
EXTENDS Integers, Sequences, FiniteSets, TLC

(***************************************************************************)
(* Bounds of the model.                                                    *)
(***************************************************************************)
\* the longest text typed from Alphabet
MaxLen == 3
\* the number of stepBy calls in one behaviour
MaxSteps == 1
\* the number of plot() calls in one behaviour
MaxPlots == 2
\* the number of edits of the time range (start_time, end_time, the text of
\* time_span, a drag of the chart) in one behaviour
MaxEdits == 2
\* the largest days field of a duration handed to the formatter
MaxDays == 10

(***************************************************************************)
(* Characters and small helpers on texts.                                  *)
(***************************************************************************)
Digits == <<"0", "1", "2", "3", "4", "5", "6", "7", "8", "9">>

IsDigit(c) == \E i \in 1..10 : Digits[i] = c

DigitVal(c) == (CHOOSE i \in 1..10 : Digits[i] = c) - 1

\* QLocale.decimalPoint() of the C / English locale
decimalPoint == "."

\* valid_characters of validate(): '0123456789:' + decimalPoint
valid_characters == {Digits[i] : i \in 1..10} \cup {":", decimalPoint}

\* str.count(':', from): the number of ':' at 0-based positions >= from
CountColons(s, from) == Cardinality({i \in 1..Len(s) : i > from /\ s[i] = ":"})

\* str.split(':')
RECURSIVE Split(_)
Split(s) ==
    IF \A i \in 1..Len(s) : s[i] # ":"
    THEN <<s>>
    ELSE LET i == CHOOSE k \in 1..Len(s) :
                     s[k] = ":" /\ \A j \in 1..(k - 1) : s[j] # ":"
         IN  <<SubSeq(s, 1, i - 1)>> \o Split(SubSeq(s, i + 1, Len(s)))

\* ':'.join(parts)
RECURSIVE Join(_)
Join(parts) ==
    IF Len(parts) = 0 THEN <<>>
    ELSE IF Len(parts) = 1 THEN parts[1]
    ELSE parts[1] \o <<":">> \o Join(Tail(parts))

\* decimal digits of a natural number, unpadded (f'{n}')
RECURSIVE NatToText(_)
NatToText(n) ==
    IF n < 10 THEN <<Digits[n + 1]>>
    ELSE NatToText(n \div 10) \o <<Digits[(n % 10) + 1]>>

\* f'{n:02d}' for a natural number
Pad2(n) == IF n < 10 THEN <<"0">> \o NatToText(n) ELSE NatToText(n)

\* three decimals of a number of milliseconds below one second
Pad3(n) == <<Digits[(n \div 100) + 1], Digits[((n \div 10) % 10) + 1], Digits[(n % 10) + 1]>>

(***************************************************************************)
(* datetime.timedelta                                                      *)
(***************************************************************************)
\* timedelta normalises its three fields on construction
TD(d, s, us) ==
    LET s1 == s + (us \div 1000000)
    IN  [days |-> d + (s1 \div 86400), seconds |-> s1 % 86400, microseconds |-> us % 1000000]

TDZero == TD(0, 0, 0)

TDAdd(a, b) == TD(a.days + b.days, a.seconds + b.seconds, a.microseconds + b.microseconds)

TDSub(a, b) == TD(a.days - b.days, a.seconds - b.seconds, a.microseconds - b.microseconds)

TDNeg(a) == TDSub(TDZero, a)

TDIsNegative(a) == a.days < 0

\* bool(delta): a zero timedelta is falsy
TDTruthy(a) == a # TDZero

\* delta.total_seconds() > 0.
TDPositive(a) == a.days > 0 \/ (a.days = 0 /\ (a.seconds > 0 \/ a.microseconds > 0))

TDAbs(a) == IF TDIsNegative(a) THEN TDNeg(a) ELSE a

\* a <= b on timedeltas
TDLeq(a, b) == ~TDIsNegative(TDSub(b, a))

\* |a - b| <= 1 ms
Within1ms(a, b) == TDLeq(TDAbs(TDSub(a, b)), TD(0, 0, 1000))

(***************************************************************************)
(* _value_to_text                                                          *)
(***************************************************************************)
\* The whole seconds s for which IEEE-754 evaluates (s + 1e-6 * 1000) % 1.0 < 0.001
\* to True although the fraction is exactly one millisecond.
FloatBelowOneMilli ==
    {1, 2, 3} \cup (8..15) \cup (32..59)

\* a seconds_str that drops the fraction of the seconds
SecondsStrTruncated(s, us) == Pad2(s)

\* seconds_str of _value_to_text: s whole seconds (0..59) and us microseconds.
\* f'{seconds:02.0f}' when the fraction is below 0.001, else f'{seconds:06.3f}',
\* which rounds to milliseconds and does not carry into the minutes.
SecondsStr(s, us) ==
    IF us < 1000 \/ (us = 1000 /\ s \in FloatBelowOneMilli)
    THEN Pad2(s)
    ELSE LET r    == us % 1000
             q    == us \div 1000
             \* round half to even; a tie's direction in binary floating point
             \* depends on the expansion of the value, the inputs of the model avoid ties
             ms   == IF r > 500 \/ (r = 500 /\ q % 2 = 1) THEN q + 1 ELSE q
             tot  == s * 1000 + ms
         IN  Pad2(tot \div 1000) \o <<".">> \o Pad3(tot % 1000)

_value_to_text(delta) ==
    LET days        == delta.days
        minutes     == (delta.seconds \div 60) % 60
        hours       == delta.seconds \div 3600
        seconds_str == SecondsStr(delta.seconds % 60, delta.microseconds)
    IN  IF days > 0
        THEN NatToText(days) \o <<":">> \o Pad2(hours) \o <<":">> \o Pad2(minutes) \o <<":">> \o seconds_str
        ELSE IF hours > 0
        THEN Pad2(hours) \o <<":">> \o Pad2(minutes) \o <<":">> \o seconds_str
        ELSE Pad2(minutes) \o <<":">> \o seconds_str

(***************************************************************************)
(* QLocale number parsing                                                  *)
(***************************************************************************)
AllDigits(s) == \A i \in 1..Len(s) : IsDigit(s[i])

\* the value of a text of digits, saturating just above cap
RECURSIVE NatValue(_, _)
NatValue(s, cap) ==
    IF Len(s) = 0 THEN 0
    ELSE LET hi == NatValue(SubSeq(s, 1, Len(s) - 1), cap)
         IN  IF hi > cap THEN hi
             ELSE IF hi * 10 + DigitVal(s[Len(s)]) > cap THEN cap + 1
             ELSE hi * 10 + DigitVal(s[Len(s)])

\* QLocale.toUShort: (value, ok); ok needs digits only and a value up to 65535
toUShort(s) ==
    IF Len(s) > 0 /\ AllDigits(s) /\ NatValue(s, 65535) <= 65535
    THEN [ok |-> TRUE, value |-> NatValue(s, 65535)]
    ELSE [ok |-> FALSE, value |-> 0]

\* QLocale.toULongLong: (value, ok); the texts of the model stay far below 2^64
toULongLong(s) ==
    IF Len(s) > 0 /\ AllDigits(s)
    THEN [ok |-> TRUE, value |-> NatValue(s, 99999999)]
    ELSE [ok |-> FALSE, value |-> 0]

\* QLocale.toDouble: digits with at most one decimal point and at least one
\* digit.  The value is kept exactly: the whole part and the digits after the point.
toDouble(s) ==
    LET dots == {i \in 1..Len(s) : s[i] = decimalPoint}
        p    == IF dots = {} THEN Len(s) + 1 ELSE CHOOSE i \in dots : TRUE
        int  == SubSeq(s, 1, p - 1)
        frac == SubSeq(s, p + 1, Len(s))
    IN  IF Cardinality(dots) <= 1 /\ AllDigits(int) /\ AllDigits(frac) /\ Len(int) + Len(frac) > 0
        THEN [ok |-> TRUE, whole |-> NatValue(int, 99999999), frac |-> frac]
        ELSE [ok |-> FALSE, whole |-> 0, frac |-> <<>>]

\* seconds > 60. on the exact value
Above60(x) == x.whole > 60 \/ (x.whole = 60 /\ \E i \in 1..Len(x.frac) : x.frac[i] # "0")

\* the microseconds timedelta(seconds=x) keeps of the fraction of x (it rounds
\* to the nearest microsecond)
FracMicros(frac) ==
    LET six == [i \in 1..6 |-> IF i <= Len(frac) THEN DigitVal(frac[i]) ELSE 0]
        v   == six[1] * 100000 + six[2] * 10000 + six[3] * 1000 + six[4] * 100 + six[5] * 10 + six[6]
    IN  IF Len(frac) > 6 /\ DigitVal(frac[7]) >= 5 THEN v + 1 ELSE v

(***************************************************************************)
(* TimeSpanEdit.validate                                                   *)
(***************************************************************************)
\* "remove invalid characters": the loop of validate() on (text, i, cursor_position)
RECURSIVE StripLoop(_, _, _)
StripLoop(text, i, cursor_position) ==
    IF i >= Len(text) THEN [text |-> text, cursor_position |-> cursor_position]
    ELSE IF text[i + 1] \notin valid_characters
         THEN \* text = text[:i] + text[i + 1:]; the inner loop stays at i
              StripLoop(SubSeq(text, 1, i) \o SubSeq(text, i + 2, Len(text)), i,
                        IF i <= cursor_position THEN cursor_position - 1 ELSE cursor_position)
         ELSE StripLoop(text, i + 1, cursor_position)

\* the QValidator.State of a text that holds valid characters only
ValidateState(text) ==
    LET parts   == Split(text)
        n       == Len(parts)
        seconds == toDouble(parts[n])
        minutes == toUShort(parts[n - 1])
        hours   == toUShort(parts[n - 2])
        days    == toULongLong(parts[n - 3])
    IN  IF Len(text) = 0 THEN "Intermediate"
        ELSE IF text[Len(text)] = ":" THEN "Intermediate"
        ELSE IF n <= 4 /\ \E i \in 1..n : Len(parts[i]) = 0 THEN "Intermediate"
        ELSE IF ~seconds.ok THEN "Invalid"
        ELSE IF Above60(seconds) THEN "Intermediate"
        ELSE IF n >= 2 /\ ~minutes.ok THEN "Invalid"
        ELSE IF n >= 2 /\ minutes.value > 60 THEN "Intermediate"
        ELSE IF n >= 3 /\ ~hours.ok THEN "Invalid"
        ELSE IF n >= 3 /\ hours.value > 24 THEN "Intermediate"
        ELSE IF n >= 4 /\ ~days.ok THEN "Invalid"
        ELSE IF n >= 5 THEN "Invalid"
        ELSE "Acceptable"

validate(text, cursor_position) ==
    LET stripped == StripLoop(text, 0, cursor_position)
    IN  [state |-> ValidateState(stripped.text), text |-> stripped.text,
         cursor_position |-> stripped.cursor_position]

\* QAbstractSpinBox.hasAcceptableInput(): validate() of the text in the field
hasAcceptableInput(text) == validate(text, 0).state = "Acceptable"

(***************************************************************************)
(* TimeSpanEdit.time_delta (getter)                                        *)
(***************************************************************************)
\* [ok |-> FALSE] stands for "raise ValueError"
time_delta(text) ==
    LET parts   == Split(text)
        n       == Len(parts)
        seconds == toDouble(parts[n])
        minutes == IF n >= 2 THEN toUShort(parts[n - 1]) ELSE [ok |-> TRUE, value |-> 0]
        hours   == IF n >= 3 THEN toUShort(parts[n - 2]) ELSE [ok |-> TRUE, value |-> 0]
        days    == IF n >= 4 THEN toULongLong(parts[n - 3]) ELSE [ok |-> TRUE, value |-> 0]
        raises  == \/ Len(text) = 0
                   \/ ~seconds.ok \/ Above60(seconds)
                   \/ ~minutes.ok \/ minutes.value > 60
                   \/ ~hours.ok \/ hours.value > 24
                   \/ ~days.ok
                   \/ n >= 5
    IN  IF raises
        THEN [ok |-> FALSE, value |-> TDZero]
        ELSE [ok |-> TRUE,
              value |-> TD(days.value, hours.value * 3600 + minutes.value * 60 + seconds.whole,
                           FracMicros(seconds.frac))]

(***************************************************************************)
(* TimeSpanEdit: the widget's operations as functions of its state         *)
(* (the text of the line edit and _last_correct_delta).  Each returns the  *)
(* new text and _last_correct_delta, the timeSpanChanged emissions and     *)
(* whether a ValueError left the operation.                                *)
(***************************************************************************)
Outcome(t, l, sig, r) == [text |-> t, last |-> l, signal |-> sig, raised |-> r]

\* the time_delta setter
time_delta_set(delta) == [text |-> _value_to_text(delta), last |-> delta]

\* part or '00' for every part of text.split(':')
FillEmpty(parts) == [i \in 1..Len(parts) |-> IF Len(parts[i]) = 0 THEN <<"0", "0">> ELSE parts[i]]

fixup(text, last) ==
    LET joined == Join(FillEmpty(Split(text)))
        shown  == IF Len(joined) = 0 THEN <<"0", "0", ":", "0", "0">> ELSE joined
        got    == time_delta(shown)
    IN  IF ~got.ok
        THEN Outcome(shown, last, <<>>, TRUE)              \* `if not self.time_delta` raises
        ELSE IF ~TDTruthy(got.value)
        THEN Outcome(time_delta_set(last).text, last, <<>>, FALSE)
        ELSE Outcome(shown, last, <<>>, FALSE)

_on_edit_finished(text, last) ==
    LET fixed   == IF hasAcceptableInput(text) THEN Outcome(text, last, <<>>, FALSE)
                   ELSE fixup(text, last)
        got     == time_delta(fixed.text)
        changed == got.value # fixed.last
        set     == time_delta_set(got.value)
        arg     == time_delta(set.text)
    IN  IF fixed.raised THEN fixed
        ELSE IF ~got.ok THEN Outcome(fixed.text, fixed.last, <<>>, TRUE)
        ELSE IF ~changed THEN Outcome(set.text, set.last, <<>>, FALSE)
        ELSE IF ~arg.ok THEN Outcome(set.text, set.last, <<>>, TRUE)
        ELSE Outcome(set.text, set.last, <<arg.value>>, FALSE)

\* stepEnabled(): the set of enabled directions
stepEnabled(text) ==
    IF ~hasAcceptableInput(text) THEN {}
    ELSE IF TDPositive(time_delta(text).value) THEN {"down", "up"}
    ELSE {"up"}

\* timedelta(**{('seconds', 'minutes', 'hours', 'days')[place]: steps})
StepDelta(place, steps) ==
    IF place = 0 THEN TD(0, steps, 0)
    ELSE IF place = 1 THEN TD(0, steps * 60, 0)
    ELSE IF place = 2 THEN TD(0, steps * 3600, 0)
    ELSE TD(steps, 0, 0)

stepBy(text, cursor_position, steps) ==
    LET place == CountColons(text, cursor_position)
        set   == time_delta_set(TDAdd(time_delta(text).value, StepDelta(place, steps)))
        arg   == time_delta(set.text)
    IN  IF ~arg.ok THEN Outcome(set.text, set.last, <<>>, TRUE)
        ELSE Outcome(set.text, set.last, <<arg.value>>, FALSE)

(***************************************************************************)
(* numpy arrays and the DataModel.  An array is a sequence of integers and *)
(* NaN; a DataModel is its header (column names, texts) and its columns.   *)
(***************************************************************************)
\* numpy.nan, a value apart from the numbers the arrays of the model hold
NaN == -999

\* None, and the empty name: both are false for all(y_column_names)
None == <<>>

\* str.endswith(suffix)
EndsWith(s, suffix) ==
    /\ Len(s) >= Len(suffix)
    /\ SubSeq(s, Len(s) - Len(suffix) + 1, Len(s)) = suffix

\* header[x_column].endswith(("(secs)", "(s)"))
IsTimeColumn(name) ==
    \/ EndsWith(name, <<"(", "s", "e", "c", "s", ")">>)
    \/ EndsWith(name, <<"(", "s", ")">>)

\* header.index(name), 1-based
HeaderIndex(header, name) == CHOOSE i \in 1..Len(header) : header[i] = name /\ \A j \in 1..(i - 1) : header[j] # name

\* the backward scan for the time column of y_column: the nearest preceding
\* column that is a time column, 0 when the loop ends without a break
XColumn(header, y_column) ==
    LET before == {x \in 1..(y_column - 1) : IsTimeColumn(header[x])}
    IN  IF before = {} THEN 0 ELSE CHOOSE x \in before : \A z \in before : z <= x

SetMin(S) == CHOOSE v \in S : \A w \in S : v <= w

SetMax(S) == CHOOSE v \in S : \A w \in S : w <= v

\* the values of an array that are not NaN
Finite(a) == {a[i] : i \in {j \in 1..Len(a) : a[j] # NaN}}

\* np.argwhere(~np.isnan(a))
GoodIndices(a) == {i \in 1..Len(a) : a[i] # NaN}

\* not np.all(np.isnan(a)) for an array that is not empty
NotAllNaN(a) == Finite(a) # {}

\* d[d > 0]
Positive(a) == {v \in Finite(a) : v > 0}

\* np.log10 on the powers of ten the data of the model holds
Log10(v) == IF v = 1 THEN 0 ELSE IF v = 10 THEN 1 ELSE IF v = 100 THEN 2 ELSE 3

\* a[mask] for a boolean mask given as the set of the positions it keeps
RECURSIVE Masked(_, _, _)
Masked(a, keep, i) ==
    IF i > Len(a) THEN <<>>
    ELSE (IF i \in keep THEN <<a[i]>> ELSE <<>>) \o Masked(a, keep, i + 1)

(***************************************************************************)
(* pyqtgraph's ViewBox.  A view range is kept in halves of the data unit   *)
(* (half milliseconds on the X axis), which makes the widening of a        *)
(* zero-width request exact.                                               *)
(***************************************************************************)
\* ViewBox.setXRange / setYRange with padding=0.0 on the range `old`, all in
\* halves: the request is ordered, and a zero-width request keeps the previous
\* width around the requested value (a width of `one` if there was none)
SetRange(old, a, b, one) ==
    LET mn == IF a <= b THEN a ELSE b
        mx == IF a <= b THEN b ELSE a
        dy == IF old[2] - old[1] = 0 THEN one ELSE old[2] - old[1]
    IN  IF mn = mx THEN <<mn - (dy \div 2), mx + (dy \div 2)>>
        ELSE <<mn, mx>>

\* setXRange(a, b) with a and b in milliseconds; one second is 2000 halves
SetXRange(old, a, b) == SetRange(old, 2 * a, 2 * b, 2000)

\* setYRange(a, b)
SetYRange(old, a, b) == SetRange(old, 2 * a, 2 * b, 2)

(***************************************************************************)
(* Plot.plot                                                               *)
(***************************************************************************)
Line(x, y, visible, label, n) ==
    [xData |-> x, yData |-> y, visible |-> visible, label |-> label, plotNo |-> n]

\* visibility padded with True up to the number of names
PadVisibility(visibility, n) ==
    [i \in 1..(IF Len(visibility) > n THEN Len(visibility) ELSE n) |->
        IF i <= Len(visibility) THEN visibility[i] ELSE TRUE]

\* all(y_column_names)
AllNames(y_column_names) == \A i \in 1..Len(y_column_names) : y_column_names[i] # None

\* the x_range of one column: first and last value that is not NaN, when
\* more than one value is not NaN
ColumnRange(x_data) ==
    LET good == GoodIndices(x_data)
    IN  IF Cardinality(good) > 1 THEN <<x_data[SetMin(good)], x_data[SetMax(good)]>> ELSE None

MergeRange(x_range, r) ==
    IF r = None THEN x_range
    ELSE IF x_range = None THEN r
    ELSE <<SetMin({r[1], x_range[1], x_range[2]}), SetMax({r[2], x_range[1], x_range[2]})>>

\* the loop over zip(y_column_names, colors, visibility) of the branch
\* all(y_column_names), from position i on: the lines appended and the x_range
RECURSIVE PlotLoop(_, _, _, _, _, _)
PlotLoop(data_model, y_column_names, visibility, i, n, acc) ==
    IF i > Len(y_column_names) \/ i > Len(visibility) THEN acc
    ELSE LET y_column == HeaderIndex(data_model.header, y_column_names[i])
             x_column == XColumn(data_model.header, y_column)
             x_data   == data_model.data[x_column]
             line     == Line(x_data, data_model.data[y_column], visibility[i], y_column_names[i], n)
         IN  IF x_column = 0
             THEN \* `continue`: no line for this name
                  PlotLoop(data_model, y_column_names, visibility, i + 1, n, acc)
             ELSE PlotLoop(data_model, y_column_names, visibility, i + 1, n,
                           [lines   |-> Append(acc.lines, line),
                            x_range |-> MergeRange(acc.x_range, ColumnRange(x_data))])

\* the loop of the other branch: a line without data for every name
EmptyLines(y_column_names, visibility, n) ==
    [i \in 1..(IF Len(visibility) < Len(y_column_names) THEN Len(visibility) ELSE Len(y_column_names)) |->
        Line(<<>>, <<>>, visibility[i], y_column_names[i], n)]

\* good_lines: zip(self.lines, visibility) pairs by position
GoodLines(lines, visibility) ==
    {i \in 1..Len(lines) :
        /\ i <= Len(visibility)
        /\ visibility[i]
        /\ Len(lines[i].yData) > 0
        /\ NotAllNaN(lines[i].yData)}

\* the Y range plot() and auto_range_y() give the arrays `data`:
\* [raises |-> TRUE] when np.nanmin meets an empty array
YBounds(data, logMode) ==
    IF logMode
    THEN IF \E d \in data : Positive(d) = {}
         THEN [raises |-> TRUE, min_y |-> 0, max_y |-> 0]
         ELSE [raises |-> FALSE,
               min_y |-> Log10(SetMin(UNION {Positive(d) : d \in data})),
               max_y |-> Log10(SetMax(UNION {Positive(d) : d \in data}))]
    ELSE IF \E d \in data : Finite(d) = {}
         THEN [raises |-> TRUE, min_y |-> 0, max_y |-> 0]
         ELSE [raises |-> FALSE,
               min_y |-> SetMin(UNION {Finite(d) : d \in data}),
               max_y |-> SetMax(UNION {Finite(d) : d \in data})]

(***************************************************************************)
(* Plot.auto_range_y                                                       *)
(***************************************************************************)
\* (line.xData >= x_min) & (line.xData <= x_max): a comparison with NaN is false
InXView(line, xr) ==
    {i \in 1..Len(line.xData) :
        line.xData[i] # NaN /\ 2 * line.xData[i] >= xr[1] /\ 2 * line.xData[i] <= xr[2]}

\* visible_data_piece
VisiblePiece(line, xr) == Masked(line.yData, InXView(line, xr), 1)

\* np.any((visible_data_piece >= y_min) & (visible_data_piece <= y_max))
AnyInYView(piece, yr) ==
    \E i \in 1..Len(piece) : piece[i] # NaN /\ 2 * piece[i] >= yr[1] /\ 2 * piece[i] <= yr[2]

\* the positions in Plot.lines of the lines whose piece goes into visible_data
VisibleData(ls, xr, yr) ==
    {i \in 1..Len(ls) :
        /\ ls[i].visible
        /\ Len(ls[i].yData) > 0
        /\ AnyInYView(VisiblePiece(ls[i], xr), yr)}

\* auto_range_y() on the lines ls, the view (xr, yr) and the mode of the left
\* axis: the new Y range, or the ValueError of np.nanmin on an empty array
AutoRangeY(ls, xr, yr, log) ==
    LET visible_data == {VisiblePiece(ls[i], xr) : i \in VisibleData(ls, xr, yr)}
        bounds       == YBounds(visible_data, log)
    IN  IF Len(ls) = 0 \/ visible_data = {} THEN [raises |-> FALSE, y_range |-> yr]
        ELSE IF bounds.raises THEN [raises |-> TRUE, y_range |-> yr]
        ELSE [raises |-> FALSE, y_range |-> SetYRange(yr, bounds.min_y, bounds.max_y)]

(***************************************************************************)
(* State.                                                                  *)
(***************************************************************************)
VARIABLES
    text,                 \* TimeSpanEdit: the text of the line edit
    last_correct_delta,   \* TimeSpanEdit._last_correct_delta
    editing,              \* the user has the text of the TimeSpanEdit under edit
    signal,               \* the timeSpanChanged emissions of the last operation
    raised,               \* the last operation was left by an exception
    lastOp,               \* the last operation
    nsteps,               \* stepBy calls so far
    fmt,                  \* the formatter and the parser applied to a duration
    val,                  \* validate() applied to a text
    ins,                  \* insert_text_after() at work on a text
    start_time,           \* Plot.start_time.dateTime(), ms from minimumDateTime
    end_time,             \* Plot.end_time.dateTime()
    blocked,              \* the widgets whose signals are blocked
    enabled,              \* start_time, end_time and time_span are enabled
    x_range,              \* viewRange()[0], in half milliseconds
    y_range,              \* viewRange()[1], in halves
    lim_pending,          \* sigRangeChanged waits in the SignalProxy
    logMode,              \* the left axis is in log mode
    lines,                \* Plot.lines
    canvas,               \* the positions in Plot.lines of the items on the canvas
    nplots,               \* plot() calls so far
    nedits,               \* edits of the time range so far
    now,                  \* datetime.now(), in half seconds
    last_time_range_rolled, \* Plot._last_time_range_rolled, in half seconds
    call,                 \* the arguments of the last replot() call
    nreplots              \* replot() calls so far

codecVars == <<text, last_correct_delta, editing, signal, raised, nsteps>>

fmtVars == <<fmt, val, ins>>

ctlVars == <<start_time, end_time, blocked, enabled, x_range, lim_pending, nedits>>

rollVars == <<now, last_time_range_rolled, call, nreplots>>

plotVars == <<y_range, logMode, lines, canvas, nplots, rollVars>>

vars == <<text, last_correct_delta, editing, signal, raised, lastOp, nsteps, fmt, val, ins,
          start_time, end_time, blocked, enabled, x_range, y_range, lim_pending,
          logMode, lines, canvas, nplots, nedits, now, last_time_range_rolled, call,
          nreplots>>

(***************************************************************************)
(* The TimeSpanEdit on its own (no slot connected to timeSpanChanged).     *)
(***************************************************************************)
\* the characters the model types
Alphabet == {"0", "6", ":", "."}

\* longer texts, typed as a whole
LongTexts ==
    { <<"0", ".", "0", "0", "0", "4">>,                               \* 0.0004
      <<"6", ".", "9", "9", "9", "6">>,                               \* 6.9996
      <<"5", "9", ".", "9", "9", "9", "6">>,                          \* 59.9996
      <<"2", "4", ":", "6", "0", ":", "6", "0">>,                     \* 24:60:60
      <<"2", ":", "0", "0", ":", "0", "0", ":", "3", "0">>,           \* 2:00:00:30
      <<"1", ":", "2", ":", "3", ":", "4", ":", "1", ":">> }          \* 1:2:3:4:1:

TypedTexts == (UNION {[1..k -> Alphabet] : k \in 0..MaxLen}) \cup LongTexts

\* what the line edit keeps of a typed text: validate() strips it, and the
\* line edit refuses an Invalid text
KeptTexts == {validate(t, Len(t)).text : t \in {u \in TypedTexts : validate(u, Len(u)).state # "Invalid"}}

\* durations set from the program (time_delta = ..., from_two_q_date_time)
SetDurations == {TD(0, 0, 0), TD(0, 90, 0), TD(1, 0, 0), TD(0, 3599, 500000)}

Apply(o, op) ==
    /\ text' = o.text
    /\ last_correct_delta' = o.last
    /\ signal' = o.signal
    /\ raised' = o.raised
    /\ lastOp' = op

CodecInit ==
    /\ text = <<>>
    /\ last_correct_delta = TD(1, 0, 0)
    /\ signal = <<>>
    /\ raised = FALSE
    /\ lastOp = "init"
    /\ nsteps = 0
    /\ editing = FALSE

\* QDateTimeEdit.minimumDateTime() after clearMinimumDateTime(): the origin
minimumDateTime == 0

\* the QDateTime a new QDateTimeEdit holds (2000-01-01 00:00)
DefaultDateTime == 5000

\* the Plot after __init__
\* the clock when the program starts, long after datetime.fromtimestamp(0)
StartClock == 10

PlotInit ==
    /\ start_time = DefaultDateTime
    /\ end_time = DefaultDateTime
    /\ blocked = {}
    /\ enabled = FALSE
    /\ x_range = <<0, 2000>>
    /\ y_range = <<0, 2>>
    /\ lim_pending = FALSE
    /\ logMode = FALSE
    /\ lines = <<>>
    /\ canvas = {}
    /\ nplots = 0
    /\ nedits = 0
    /\ now = StartClock
    /\ last_time_range_rolled = 0
    /\ call = None
    /\ nreplots = 0

\* the user edits the text; a run of keystrokes is one Type
Type ==
    /\ lastOp # "type"
    /\ \E t \in KeptTexts :
          /\ t # text
          /\ Apply(Outcome(t, last_correct_delta, <<>>, FALSE), "type")
    /\ editing' = TRUE
    /\ UNCHANGED <<nsteps, fmtVars, ctlVars, plotVars>>

\* editingFinished: Return, or the focus leaves the field
EditFinished ==
    /\ Apply(_on_edit_finished(text, last_correct_delta), "edit_finished")
    /\ editing' = FALSE
    /\ UNCHANGED <<nsteps, fmtVars, ctlVars, plotVars>>

\* an arrow key, or a click on an arrow, with the cursor anywhere in the text
StepBy ==
    /\ nsteps < MaxSteps
    /\ \E cursor_position \in 0..Len(text), dir \in stepEnabled(text) :
          Apply(stepBy(text, cursor_position, IF dir = "up" THEN 1 ELSE -1), "step")
    /\ nsteps' = nsteps + 1
    /\ UNCHANGED <<editing, fmtVars, ctlVars, plotVars>>

\* time_delta = delta
SetDelta ==
    /\ \E delta \in SetDurations :
          Apply(Outcome(time_delta_set(delta).text, delta, <<>>, FALSE), "set")
    /\ UNCHANGED editing
    /\ UNCHANGED <<nsteps, fmtVars, ctlVars, plotVars>>

(***************************************************************************)
(* Plot: the handlers of start_time, end_time, time_span and of the        *)
(* chart's range.                                                          *)
(***************************************************************************)
\* round(x) of a number of half milliseconds: Python rounds half to even
RoundMs(h) ==
    IF h % 2 = 0 THEN h \div 2
    ELSE LET f == (h - 1) \div 2 IN IF f % 2 = 0 THEN f ELSE f + 1

\* round(delta.total_seconds() * 1000)
TotalMs(delta) ==
    LET q == delta.microseconds \div 1000
        r == delta.microseconds % 1000
    IN  delta.days * 86400000 + delta.seconds * 1000
            + (IF r > 500 \/ (r = 500 /\ q % 2 = 1) THEN q + 1 ELSE q)

\* QDateTimeEdit.setDateTime keeps the value inside the widget's range (the
\* times of the model stay far below maximumDateTime)
Bound(t) == IF t < minimumDateTime THEN minimumDateTime ELSE t

\* from_two_q_date_time: abs(date_time_2 - date_time_1) through the setter
from_two_q_date_time(date_time_1, date_time_2) ==
    LET ms == IF date_time_2 >= date_time_1 THEN date_time_2 - date_time_1
              ELSE date_time_1 - date_time_2
    IN  time_delta_set(TD(0, ms \div 1000, (ms % 1000) * 1000))

\* setXRange(...) at the end of a handler: the new range, and sigRangeChanged
\* if the range moved
PushRange(a, b) ==
    /\ x_range' = SetXRange(x_range, a, b)
    /\ lim_pending' = (lim_pending \/ SetXRange(x_range, a, b) # x_range)

\* on_start_time_changed(new_time), start_time holding new_time already
on_start_time_changed(new_time) ==
    LET set == from_two_q_date_time(new_time, end_time)
    IN  /\ text' = set.text
        /\ last_correct_delta' = set.last
        /\ blocked' = blocked \ {"time_span"}
        /\ raised' = FALSE
        /\ PushRange(new_time, end_time)
        /\ UNCHANGED end_time

\* the common part of on_end_time_changed and on_time_span_changed: the
\* start for the span of span_ms milliseconds that ends at end_time',
\* from the TimeSpanEdit state (t, l)
MoveStart(span_ms, t, l) ==
    IF end_time' - span_ms >= minimumDateTime
    THEN /\ start_time' = Bound(end_time' - span_ms)
         /\ text' = t
         /\ last_correct_delta' = l
         /\ blocked' = blocked \ {"start_time"}
         /\ PushRange(Bound(end_time' - span_ms), end_time')
    ELSE LET set == from_two_q_date_time(minimumDateTime, end_time')
         IN  /\ start_time' = minimumDateTime
             /\ text' = set.text
             /\ last_correct_delta' = set.last
             /\ blocked' = blocked \ {"start_time", "time_span"}
             /\ PushRange(minimumDateTime, end_time')

\* on_end_time_changed(new_time), end_time' holding new_time already;
\* time_span.total_seconds raises ValueError on a text that does not parse,
\* after start_time.blockSignals(True)
on_end_time_changed ==
    LET got == time_delta(text)
    IN  IF ~got.ok
        THEN /\ raised' = TRUE
             /\ blocked' = blocked \cup {"start_time"}
             /\ UNCHANGED <<start_time, text, last_correct_delta, x_range, lim_pending>>
        ELSE /\ raised' = FALSE
             /\ MoveStart(TotalMs(got.value), text, last_correct_delta)

\* an on_time_span_changed that keeps the start and moves the end
on_time_span_changed_moving_end(delta, t, l) ==
    /\ UNCHANGED start_time
    /\ end_time' = Bound(start_time + TotalMs(delta))
    /\ text' = t
    /\ last_correct_delta' = l
    /\ blocked' = blocked \ {"end_time"}
    /\ PushRange(start_time, Bound(start_time + TotalMs(delta)))

\* on_time_span_changed(delta) on the TimeSpanEdit state (t, l)
on_time_span_changed(delta, t, l) ==
    /\ UNCHANGED end_time
    /\ MoveStart(TotalMs(delta), t, l)

\* the times the user enters in start_time and end_time
EditTimes == {1000, 61000}

\* the user changes start_time; dateTimeChanged reaches the handler unless
\* the signals of start_time are blocked
StartEdited ==
    /\ enabled /\ ~editing
    /\ nedits < MaxEdits
    /\ nedits' = nedits + 1
    /\ \E new_time \in EditTimes :
          /\ new_time # start_time
          /\ start_time' = new_time
          /\ IF "start_time" \in blocked
             THEN /\ lastOp' = "start_blocked"
                  /\ UNCHANGED <<text, last_correct_delta, raised, blocked, end_time, x_range, lim_pending>>
             ELSE /\ lastOp' = "setStart"
                  /\ on_start_time_changed(new_time)
    /\ signal' = <<>>
    /\ UNCHANGED <<editing, nsteps, fmtVars, enabled, plotVars>>

\* the user changes end_time
EndEdited ==
    /\ enabled /\ ~editing
    /\ nedits < MaxEdits
    /\ nedits' = nedits + 1
    /\ \E new_time \in EditTimes :
          /\ new_time # end_time
          /\ end_time' = new_time
          /\ IF "end_time" \in blocked
             THEN /\ lastOp' = "end_blocked"
                  /\ UNCHANGED <<text, last_correct_delta, raised, blocked, start_time, x_range, lim_pending>>
             ELSE /\ lastOp' = "setEnd"
                  /\ on_end_time_changed
    /\ signal' = <<>>
    /\ UNCHANGED <<editing, nsteps, fmtVars, enabled, plotVars>>

\* the emissions of a TimeSpanEdit operation reach on_time_span_changed
Deliver(o, op) ==
    /\ signal' = o.signal
    /\ IF o.signal # <<>> /\ ~o.raised
       THEN /\ lastOp' = "setSpan"
            /\ raised' = FALSE
            /\ on_time_span_changed(o.signal[1], o.text, o.last)
       ELSE /\ lastOp' = op
            /\ raised' = o.raised
            /\ text' = o.text
            /\ last_correct_delta' = o.last
            /\ UNCHANGED <<start_time, end_time, blocked, x_range, lim_pending>>

\* the texts the user types into time_span
SpanTexts ==
    { <<"6", "6">>, <<"3", "0">>, <<"2", ":", "0", "0">> }

SpanTyped ==
    /\ enabled
    /\ lastOp # "type"
    /\ nedits < MaxEdits
    /\ nedits' = nedits + 1
    /\ \E t \in SpanTexts :
          /\ validate(t, Len(t)).state # "Invalid"
          /\ validate(t, Len(t)).text # text
          /\ text' = validate(t, Len(t)).text
    /\ editing' = TRUE
    /\ signal' = <<>>
    /\ raised' = FALSE
    /\ lastOp' = "type"
    /\ UNCHANGED <<last_correct_delta, nsteps, fmtVars, start_time, end_time, blocked, enabled,
                   x_range, lim_pending, plotVars>>

\* editingFinished of time_span
SpanEditFinished ==
    /\ enabled
    /\ Deliver(_on_edit_finished(text, last_correct_delta), "edit_finished")
    /\ editing' = FALSE
    /\ UNCHANGED <<nsteps, fmtVars, enabled, nedits, plotVars>>

\* a step of time_span
SpanStepped ==
    /\ enabled
    /\ nsteps < MaxSteps
    /\ \E cursor_position \in 0..Len(text), dir \in stepEnabled(text) :
          Deliver(stepBy(text, cursor_position, IF dir = "up" THEN 1 ELSE -1), "step")
    /\ nsteps' = nsteps + 1
    /\ UNCHANGED <<editing, fmtVars, enabled, nedits, plotVars>>

\* on_lim_changed: the SignalProxy hands over the range of the chart
LimChanged ==
    /\ lim_pending
    /\ LET s   == Bound(RoundMs(x_range[1]))
           e   == Bound(RoundMs(x_range[2]))
           set == from_two_q_date_time(s, e)
       IN  /\ start_time' = s
           /\ end_time' = e
           /\ text' = set.text
           /\ last_correct_delta' = set.last
    /\ blocked' = blocked \ {"start_time", "end_time", "time_span"}
    /\ lim_pending' = FALSE
    /\ signal' = <<>>
    /\ raised' = FALSE
    /\ lastOp' = "lim_changed"
    /\ UNCHANGED <<editing, nsteps, fmtVars, enabled, x_range, nedits, plotVars>>

\* the ranges the user drags or zooms the chart to, in half milliseconds
DraggedRanges == {<<2001, 6001>>, <<0 - 4000, 4000>>}

\* the user pans or zooms the chart
RangeDragged ==
    /\ nedits < MaxEdits
    /\ nedits' = nedits + 1
    /\ \E r \in DraggedRanges :
          /\ r # x_range
          /\ x_range' = r
    /\ lim_pending' = TRUE
    /\ signal' = <<>>
    /\ raised' = FALSE
    /\ lastOp' = "drag"
    /\ UNCHANGED <<text, last_correct_delta, editing, nsteps, fmtVars, start_time, end_time,
                   blocked, enabled, plotVars>>

(***************************************************************************)
(* Plot.plot and Plot.set_line_visible                                     *)
(***************************************************************************)
TimeName == <<"T", "(", "s", ")">>

VoltName == <<"V", "(", "V", ")">>

WattName == <<"W", "(", "W", ")">>

\* a log whose time column comes first; W(W) holds no number
TimeFirst ==
    [header |-> <<TimeName, VoltName, WattName>>,
     data   |-> <<<<1000, 2000, 3000>>, <<10, 100, 1>>, <<NaN, NaN, NaN>>>>]

\* a log whose first column is not a time column
TimeSecond ==
    [header |-> <<VoltName, TimeName, WattName>>,
     data   |-> <<<<10, 1>>, <<1000, 3000>>, <<0, -10>>>>]

\* a log of two series apart from each other: V(V) in [0, 1], W(W) in [100, 1000]
TwoSeries ==
    [header |-> <<TimeName, VoltName, WattName>>,
     data   |-> <<<<1000, 2000>>, <<0, 1>>, <<100, 1000>>>>]

Request(data_model, y_column_names, visibility) ==
    [data_model |-> data_model, y_column_names |-> y_column_names, visibility |-> visibility]

\* the calls of plot() the model makes
\* a file whose two series share the value 10
Overlapping ==
    [header |-> <<TimeName, VoltName, WattName>>,
     data   |-> << <<1000, 2000>>, <<0, 10>>, <<10, 100>> >>]

PlotRequests ==
    { Request(TimeFirst, <<VoltName>>, <<>>),
      Request(TimeFirst, <<VoltName, WattName>>, <<TRUE, FALSE>>),
      Request(TimeFirst, <<WattName>>, <<>>),
      Request(TimeFirst, <<None, VoltName>>, <<>>),
      Request(TimeSecond, <<VoltName, WattName>>, <<TRUE, FALSE>>),
      Request(TimeSecond, <<WattName>>, <<FALSE>>) }

\* the calls of plot() before the chart is ranged, dragged and replotted
ViewRequests ==
    { Request(TwoSeries, <<VoltName, WattName>>, <<>>),
      Request(TimeSecond, <<WattName>>, <<>>),
      Request(Overlapping, <<VoltName, WattName>>, <<>>),
      Request(TimeSecond, <<VoltName, WattName>>, <<TRUE, FALSE>>) }

\* plot(data_model, y_column_names, visibility=visibility)
PlotCall(req) ==
    LET visibility == PadVisibility(req.visibility, Len(req.y_column_names))
        loop       == IF AllNames(req.y_column_names)
                      THEN PlotLoop(req.data_model, req.y_column_names, visibility, 1, nplots + 1,
                                    [lines |-> <<>>, x_range |-> None])
                      ELSE [lines   |-> EmptyLines(req.y_column_names, visibility, nplots + 1),
                            x_range |-> None]
        new_lines  == lines \o loop.lines
        new_x      == IF loop.x_range # None
                      THEN SetXRange(x_range, loop.x_range[1], loop.x_range[2])
                      ELSE x_range
        good_lines == GoodLines(new_lines, visibility)
        bounds     == YBounds({new_lines[i].yData : i \in good_lines}, logMode)
        new_y      == IF good_lines # {} THEN SetYRange(y_range, bounds.min_y, bounds.max_y)
                      ELSE y_range
    IN  /\ nplots < MaxPlots
        /\ nplots' = nplots + 1
        /\ lines' = new_lines
        /\ canvas' = (IF Len(lines) > 0 THEN {} ELSE canvas) \cup ((Len(lines) + 1)..Len(new_lines))
        /\ x_range' = new_x
        /\ IF good_lines # {} /\ bounds.raises
           THEN /\ raised' = TRUE
                /\ lim_pending' = (lim_pending \/ new_x # x_range)
                /\ UNCHANGED <<y_range, enabled>>
           ELSE /\ raised' = FALSE
                /\ y_range' = new_y
                /\ lim_pending' = (lim_pending \/ new_x # x_range \/ new_y # y_range)
                /\ enabled' = (good_lines # {})
        /\ signal' = <<>>
        /\ lastOp' = "plot"
        /\ UNCHANGED <<text, last_correct_delta, editing, nsteps, fmtVars, start_time, end_time,
                       blocked, logMode, nedits, rollVars>>

\* a file is loaded and its columns are plotted
Plot == \E req \in PlotRequests : PlotCall(req)

\* set_line_visible(index, visible); index counts from 1 here, and an index
\* past the end of Plot.lines raises IndexError
set_line_visible ==
    /\ lastOp = "plot"
    /\ \E index \in 1..(Len(lines) + 1), visible \in BOOLEAN :
          IF index > Len(lines)
          THEN /\ raised' = TRUE
               /\ UNCHANGED lines
          ELSE /\ raised' = FALSE
               /\ lines[index].visible # visible
               /\ lines' = [lines EXCEPT ![index].visible = visible]
    /\ signal' = <<>>
    /\ lastOp' = "set_line_visible"
    /\ UNCHANGED <<text, last_correct_delta, editing, nsteps, fmtVars, ctlVars,
                   y_range, logMode, canvas, nplots, rollVars>>

\* auto_range_y(): the auto button, a double click on the chart; twice in a
\* row at most
auto_range_y ==
    /\ lastOp # "auto_range_y_again"
    /\ LET r == AutoRangeY(lines, x_range, y_range, logMode)
       IN  /\ raised' = r.raises
           /\ y_range' = r.y_range
           /\ lim_pending' = (lim_pending \/ r.y_range # y_range)
    /\ signal' = <<>>
    /\ lastOp' = IF lastOp = "auto_range_y" THEN "auto_range_y_again" ELSE "auto_range_y"
    /\ UNCHANGED <<text, last_correct_delta, editing, nsteps, fmtVars, start_time, end_time,
                   blocked, enabled, x_range, nedits, logMode, lines, canvas, nplots, rollVars>>

\* the views the user drags or zooms the chart to, in halves
DraggedXViews == {<<2000, 3000>>}

DraggedYViews == {<<0, 4>>, <<0 - 2, 4>>}

\* the user pans or zooms the chart along both axes
ViewDragged ==
    /\ lastOp # "view_dragged"
    /\ \E xr \in DraggedXViews \cup {x_range}, yr \in DraggedYViews \cup {y_range} :
          /\ <<xr, yr>> # <<x_range, y_range>>
          /\ x_range' = xr
          /\ y_range' = yr
    /\ lim_pending' = TRUE
    /\ signal' = <<>>
    /\ raised' = FALSE
    /\ lastOp' = "view_dragged"
    /\ UNCHANGED <<text, last_correct_delta, editing, nsteps, fmtVars, start_time, end_time,
                   blocked, enabled, nedits, logMode, lines, canvas, nplots, rollVars>>

\* the application switches the left axis between the linear and the log
\* mode and enables the auto range of the canvas, which leaves the Y range
\* as it is or moves it
SetLogMode ==
    /\ lastOp # "set_log_mode"
    /\ logMode' = ~logMode
    /\ \E yr \in DraggedYViews \cup {y_range} :
          /\ y_range' = yr
          /\ lim_pending' = (lim_pending \/ yr # y_range)
    /\ signal' = <<>>
    /\ raised' = FALSE
    /\ lastOp' = "set_log_mode"
    /\ UNCHANGED <<text, last_correct_delta, editing, nsteps, fmtVars, start_time, end_time,
                   blocked, enabled, x_range, nedits, lines, canvas, nplots, rollVars>>

(***************************************************************************)
(* on_view_all_triggered                                                   *)
(***************************************************************************)
\* the bounds ViewBox.autoRange(padding=0.0) finds: the data shown by the
\* visible items of the canvas, log10 of the positive values along Y in the
\* log mode
ShownX == UNION {Finite(lines[i].xData) : i \in {j \in canvas : lines[j].visible}}

ShownY ==
    UNION {IF logMode THEN {Log10(v) : v \in Positive(lines[i].yData)}
           ELSE Finite(lines[i].yData) : i \in {j \in canvas : lines[j].visible}}

\* ViewBox.autoRange(padding=0.0) along one axis
ChildrenXRange == IF ShownX = {} THEN x_range ELSE SetXRange(x_range, SetMin(ShownX), SetMax(ShownX))

ChildrenYRange == IF ShownY = {} THEN y_range ELSE SetYRange(y_range, SetMin(ShownY), SetMax(ShownY))

\* all_data: the lines of Plot.lines with an X value that is not NaN
AllData == {i \in 1..Len(lines) : GoodIndices(lines[i].xData) # {}}

\* the menu action "View All"
on_view_all_triggered ==
    /\ lastOp # "view_all"
    /\ IF AllData = {}
       THEN UNCHANGED <<x_range, y_range, lim_pending>>
       ELSE LET min_x == SetMin({lines[i].xData[SetMin(GoodIndices(lines[i].xData))] : i \in AllData})
                max_x == SetMax({lines[i].xData[SetMax(GoodIndices(lines[i].xData))] : i \in AllData})
            IN  /\ x_range' = SetXRange(ChildrenXRange, min_x, max_x)
                /\ y_range' = ChildrenYRange
                /\ lim_pending' = (lim_pending \/ x_range' # x_range \/ y_range' # y_range)
    /\ signal' = <<>>
    /\ raised' = FALSE
    /\ lastOp' = "view_all"
    /\ UNCHANGED <<text, last_correct_delta, editing, nsteps, fmtVars, start_time, end_time,
                   blocked, enabled, nedits, logMode, lines, canvas, nplots, rollVars>>

(***************************************************************************)
(* Plot.replot and the clock.                                              *)
(***************************************************************************)
\* the ticks of the clock a behaviour takes
MaxTicks == 3

\* the replot() calls a behaviour takes
MaxReplots == 2

\* timedelta(seconds=1), in half seconds
RollInterval == 2

\* the file of TwoSeries with one more sample, 30 after the last one
TwoSeriesGrown ==
    [header |-> <<TimeName, VoltName, WattName>>,
     data   |-> << <<1000, 2000, 2030>>, <<0, 1, 10>>, <<100, 1000, 1>> >>]

\* the data models handed to replot(): the file as it was plotted, the file
\* grown, and a file whose first column has no time column before it
ReplotData == {TwoSeries, TwoSeriesGrown, TimeSecond}

Last(a) == a[Len(a)]

\* the roll of replot(): the X range and _last_time_range_rolled after it;
\* setXRange raises for a shift that is NaN
Roll(line, x_data, roll) ==
    LET shift == Last(x_data) - Last(line.xData)
    IN  IF roll /\ Len(line.xData) > 0 /\ now - last_time_range_rolled >= RollInterval
        THEN IF Last(x_data) = NaN \/ Last(line.xData) = NaN
             THEN [raises |-> TRUE, x_range |-> x_range, rolled |-> last_time_range_rolled]
             ELSE [raises |-> FALSE,
                   x_range |-> SetRange(x_range, x_range[1] + 2 * shift,
                                       x_range[2] + 2 * shift, 2000),
                   rolled |-> now]
        ELSE [raises |-> FALSE, x_range |-> x_range, rolled |-> last_time_range_rolled]

\* replot(index, data_model, y_column_name, roll=roll) past the early
\* returns; index counts from 1 here
ReplotLine(index, data_model, y_column_name, roll) ==
    LET y_column == HeaderIndex(data_model.header, y_column_name)
        x_column == XColumn(data_model.header, y_column)
        r        == Roll(lines[index], data_model.data[x_column], roll)
    IN  IF x_column = 0
        THEN /\ raised' = FALSE
             /\ UNCHANGED <<lines, x_range, lim_pending, last_time_range_rolled>>
        ELSE /\ raised' = r.raises
             /\ x_range' = r.x_range
             /\ lim_pending' = (lim_pending \/ r.x_range # x_range)
             /\ last_time_range_rolled' = r.rolled
             /\ lines' = IF r.raises THEN lines
                         ELSE [lines EXCEPT ![index].xData = data_model.data[x_column],
                                            ![index].yData = data_model.data[y_column],
                                            ![index].label = y_column_name]

\* the timer replots a line with the data read so far
replot ==
    /\ nreplots < MaxReplots
    /\ nreplots' = nreplots + 1
    /\ \E index \in 1..(Len(lines) + 1), data_model \in ReplotData,
          y_column_name \in {VoltName, None}, roll \in BOOLEAN :
          /\ call' = [index |-> index, data_model |-> data_model,
                      y_column_name |-> y_column_name, roll |-> roll]
          /\ IF y_column_name = None \/ index > Len(lines)
             THEN /\ raised' = FALSE
                  /\ UNCHANGED <<lines, x_range, lim_pending, last_time_range_rolled>>
             ELSE ReplotLine(index, data_model, y_column_name, roll)
    /\ signal' = <<>>
    /\ lastOp' = "replot"
    /\ UNCHANGED <<text, last_correct_delta, editing, nsteps, fmtVars, start_time, end_time,
                   blocked, enabled, nedits, y_range, logMode, canvas, nplots, now>>

\* half a second passes
Tick ==
    /\ now < StartClock + MaxTicks
    /\ now' = now + 1
    /\ lastOp' = "tick"
    /\ UNCHANGED <<codecVars, fmtVars, ctlVars, y_range, logMode, lines, canvas, nplots,
                   last_time_range_rolled, call, nreplots>>

(***************************************************************************)
(* _value_to_text and the time_delta getter applied to a duration.         *)
(***************************************************************************)
\* the durations handed to the formatter
FormatDurations ==
    {TD(d, h * 3600 + m * 60 + sec, us) :
        d \in 0..MaxDays, h \in {0, 1, 23}, m \in {0, 1, 59}, sec \in {0, 1, 33, 59},
        us \in {0, 1, 400, 999, 1000, 1001, 500400, 999000, 999400, 999600, 999999}}

NoParse == [ok |-> FALSE, value |-> TDZero]

\* insert_text_after() is not at work
InsIdle == [stage |-> "idle", s |-> <<>>, what |-> <<>>, where |-> <<>>, index |-> 0,
            quote_indices |-> {}, input |-> <<>>]

\* no text is under validation
ValIdle ==
    [stage |-> "idle", text |-> <<>>, cursor_position |-> 0, state |-> "Intermediate",
     input |-> [text |-> <<>>, cursor_position |-> 0]]

FmtIdle == [stage |-> "idle", d |-> TDZero, text |-> <<>>, back |-> NoParse, text2 |-> <<>>]

FmtInit == fmt \in {[FmtIdle EXCEPT !.stage = "input", !.d = d] : d \in FormatDurations}

\* text = _value_to_text(d)
Format ==
    /\ fmt.stage = "input"
    /\ fmt' = [fmt EXCEPT !.stage = "formatted", !.text = _value_to_text(fmt.d)]
    /\ lastOp' = "format"
    /\ UNCHANGED <<val, ins, codecVars, ctlVars, plotVars>>

\* back = time_delta of that text
Parse ==
    /\ fmt.stage = "formatted"
    /\ fmt' = [fmt EXCEPT !.stage = "parsed", !.back = time_delta(fmt.text)]
    /\ lastOp' = "parse"
    /\ UNCHANGED <<val, ins, codecVars, ctlVars, plotVars>>

\* text2 = _value_to_text(back)
Reformat ==
    /\ fmt.stage = "parsed"
    /\ fmt.back.ok
    /\ fmt' = [fmt EXCEPT !.stage = "reformatted", !.text2 = _value_to_text(fmt.back.value)]
    /\ lastOp' = "reformat"
    /\ UNCHANGED <<val, ins, codecVars, ctlVars, plotVars>>

InitFormat == CodecInit /\ FmtInit /\ val = ValIdle /\ ins = InsIdle /\ PlotInit

NextFormat == Format \/ Parse \/ Reformat

SpecFormat == InitFormat /\ [][NextFormat]_vars

(***************************************************************************)
(* validate() applied to a text.                                           *)
(***************************************************************************)
\* the most fields a text under validation has
MaxFields == 5

\* the fields the texts are made of: nothing, a small number, a number
\* above 24, a number above 60, a number with a fraction, a lone point
FieldTexts == {<<>>, <<"5">>, <<"2", "5">>, <<"6", "1">>, <<"1", ".", "5">>, <<".">>}

\* texts with a character validate() removes, and the minutes 65
OtherTexts ==
    { <<"6", "5", ":", "3", "0">>,                                     \* 65:30
      <<"1", ":", "2", ":", "3", ":", "4", "s", ":", "5">>,            \* 1:2:3:4s:5
      <<"1", " ", "h">> }                                              \* 1 h

ValidatedTexts == {Join(parts) : parts \in UNION {[1..n -> FieldTexts] : n \in 1..MaxFields}} \cup OtherTexts

\* the cursor is at the end of a text, and anywhere in a text with a
\* character validate() removes
ValInit ==
    val \in UNION {{[ValIdle EXCEPT !.stage = "input", !.text = t, !.cursor_position = c,
                                    !.input = [text |-> t, cursor_position |-> c]] :
                        c \in IF t \in OtherTexts THEN 0..Len(t) ELSE {Len(t)}} :
                   t \in ValidatedTexts}

\* state, text, cursor_position = validate(text, cursor_position)
Validate ==
    /\ val.stage = "input"
    /\ LET v == validate(val.text, val.cursor_position)
       IN  val' = [val EXCEPT !.stage = "validated", !.text = v.text,
                              !.cursor_position = v.cursor_position, !.state = v.state]
    /\ lastOp' = "validate"
    /\ UNCHANGED <<fmt, ins, codecVars, ctlVars, plotVars>>

InitValidate == CodecInit /\ fmt = FmtIdle /\ ValInit /\ ins = InsIdle /\ PlotInit

NextValidate == Validate

SpecValidate == InitValidate /\ [][NextValidate]_vars

(***************************************************************************)
(* insert_text_after(s, what, where), one turn of its second loop at a     *)
(* time.  Positions count from 0 as in Python.                             *)
(***************************************************************************)
\* the longest text handed to insert_text_after
MaxStr == 4

\* s.find(where, index): the first position >= index where `where` starts,
\* -1 when there is none
Find(s, where, index) ==
    LET at == {k \in index..(Len(s) - Len(where)) : SubSeq(s, k + 1, k + Len(where)) = where}
    IN  IF at = {} THEN -1 ELSE SetMin(at)

\* quote_indices: the positions of the single quotes, found by the first loop
QuoteIndices(s) == {k \in 0..(Len(s) - 1) : s[k + 1] = "'"}

\* zip(quote_indices[:-1:2], quote_indices[1::2]): the pairs <<a, b>> of an
\* opening quote and the quote after it
QuotePairs(quote_indices) ==
    {<<a, b>> \in quote_indices \X quote_indices :
        /\ a < b
        /\ Cardinality({q \in quote_indices : q < a}) % 2 = 0
        /\ \A q \in quote_indices : ~(a < q /\ q < b)}

\* the calls: texts of a letter and quotes, what to insert and after what
InsInit ==
    ins \in {[InsIdle EXCEPT !.stage = "loop", !.s = s, !.input = s, !.what = what,
                             !.where = where, !.quote_indices = QuoteIndices(s)] :
                s \in UNION {[1..n -> {"a", "'"}] : n \in 0..MaxStr},
                what \in {<<>>, <<"!">>, <<"!", "!">>},
                where \in {<<>>, <<"a">>, <<"a", "a">>, <<"'">>, <<"a", "'">>}}

\* one turn of `while (index := s.find(where, index)) != -1`; a text that
\* has grown past what the occurrences in the input can account for is left
\* to grow unobserved
InsertStep ==
    /\ ins.stage = "loop"
    /\ Len(ins.s) <= Len(ins.input) * (1 + Len(ins.what))
    /\ LET index == Find(ins.s, ins.where, ins.index)
           around == {p \in QuotePairs(ins.quote_indices) : p[1] <= index /\ index <= p[2]}
           after  == index + Len(ins.where)
       IN  ins' = IF index = -1 THEN [ins EXCEPT !.stage = "returned"]
                  ELSE IF around # {}
                  THEN [ins EXCEPT !.index = (CHOOSE p \in around : \A q \in around : p[1] <= q[1])[2]]
                  ELSE [ins EXCEPT !.s = SubSeq(ins.s, 1, after) \o ins.what
                                         \o SubSeq(ins.s, after + 1, Len(ins.s)),
                                   !.index = after + Len(ins.what)]
    /\ lastOp' = "insert_text_after"
    /\ UNCHANGED <<fmt, val, codecVars, ctlVars, plotVars>>

InitInsert == CodecInit /\ fmt = FmtIdle /\ val = ValIdle /\ InsInit /\ PlotInit

SpecInsert == InitInsert /\ [][InsertStep]_vars

\* the loop goes on as long as it can
SpecInsertLive == SpecInsert /\ WF_vars(InsertStep)

(***************************************************************************)
(* The TimeSpanEdit on its own.                                            *)
(***************************************************************************)
InitCodec == CodecInit /\ fmt = FmtIdle /\ val = ValIdle /\ ins = InsIdle /\ PlotInit

NextCodec == Type \/ EditFinished \/ StepBy \/ SetDelta

SpecCodec == InitCodec /\ [][NextCodec]_vars

(***************************************************************************)
(* The Plot and its series.                                                *)
(***************************************************************************)
InitPlot == CodecInit /\ fmt = FmtIdle /\ val = ValIdle /\ ins = InsIdle /\ PlotInit

NextPlot == Plot \/ set_line_visible \/ LimChanged

SpecPlot == InitPlot /\ [][NextPlot]_vars

(***************************************************************************)
(* The Plot and the view of its chart.                                     *)
(***************************************************************************)
\* a file is loaded and its columns are plotted
PlotForView == \E req \in ViewRequests : PlotCall(req)

InitView == CodecInit /\ fmt = FmtIdle /\ val = ValIdle /\ ins = InsIdle /\ PlotInit

NextView ==
    \/ PlotForView
    \/ set_line_visible
    \/ auto_range_y
    \/ on_view_all_triggered
    \/ ViewDragged
    \/ SetLogMode

SpecView == InitView /\ [][NextView]_vars

(***************************************************************************)
(* The chart while the timer replots its lines: plot, replot and the       *)
(* clock.                                                                  *)
(***************************************************************************)
InitRoll == CodecInit /\ fmt = FmtIdle /\ val = ValIdle /\ ins = InsIdle /\ PlotInit

\* the files plotted while the timer runs
RollRequests ==
    {Request(TwoSeries, <<VoltName>>, <<>>), Request(TimeSecond, <<WattName>>, <<>>)}

PlotForRoll == \E req \in RollRequests : PlotCall(req)

NextRoll == PlotForRoll \/ replot \/ Tick

SpecRoll == InitRoll /\ [][NextRoll]_vars

(***************************************************************************)
(* The Plot and its three fields for the time range.                       *)
(***************************************************************************)
\* the file the application loads
Load == PlotCall(Request(TimeFirst, <<VoltName>>, <<>>))

InitCtl == CodecInit /\ fmt = FmtIdle /\ val = ValIdle /\ ins = InsIdle /\ PlotInit

NextCtl ==
    \/ Load
    \/ StartEdited
    \/ EndEdited
    \/ SpanTyped
    \/ SpanEditFinished
    \/ SpanStepped
    \/ LimChanged
    \/ RangeDragged

SpecCtl == InitCtl /\ [][NextCtl]_vars

(***************************************************************************)
(* Claims about the duration codec.                                        *)
(***************************************************************************)
\* the seconds field of d lies in [0, 59.999] and its days in 0..MaxDays
InRoundTripDomain(d) ==
    /\ d.days \in 0..MaxDays
    /\ (d.seconds % 60 < 59 \/ d.microseconds <= 999000)

C5_FormatIdempotent ==
    fmt.stage = "reformatted" => fmt.text2 = fmt.text

\* C6: _on_edit_finished never fails: whatever text is in the field, it ends
\* without an exception and with an Acceptable, normalized text in the field.
C6_CommitNeverFails ==
    lastOp = "edit_finished" =>
        /\ ~raised
        /\ hasAcceptableInput(text)
        /\ text = _value_to_text(time_delta(text).value)

\* C7: on a commit timeSpanChanged fires exactly when the committed normalized
\* duration differs from the _last_correct_delta of before the commit, at most
\* once, and afterwards _last_correct_delta is the committed duration; editing
\* the text (validate) fires nothing.
C7_NotifyExactlyOnChange ==
    [][/\ (lastOp' = "edit_finished" /\ ~raised') =>
              /\ Len(signal') <= 1
              /\ (signal' # <<>>) <=> (time_delta(text').value # last_correct_delta)
              /\ last_correct_delta' = time_delta(text').value
       /\ lastOp' = "type" => signal' = <<>>]_vars

\* C8: stepBy never produces a negative duration (an underflow is clamped to
\* the zero duration).
C8_StepNeverNegative ==
    lastOp = "step" => ~TDIsNegative(last_correct_delta)

(***************************************************************************)
(* Claims about the fields of the time range.                              *)
(***************************************************************************)
\* the duration the text of time_span shows, in ms; -1 when it does not parse
ShownMs == IF time_delta(text).ok THEN TotalMs(time_delta(text).value) ELSE 0 - 1

\* C1: after every on_start_time_changed, on_end_time_changed and
\* on_time_span_changed, end_time - start_time is the duration in time_span
\* within 1 ms, and start_time is not below minimumDateTime after the last two.
C1_RangeMatchesSpan ==
    lastOp \in {"setStart", "setEnd", "setSpan"} =>
        /\ time_delta(text).ok
        /\ (end_time - start_time) - ShownMs \in (0 - 1)..1
        /\ lastOp \in {"setEnd", "setSpan"} => start_time >= minimumDateTime

\* the duration of before an operation: what time_span shows, or
\* _last_correct_delta when its text does not parse
CurrentMs == IF time_delta(text).ok THEN TotalMs(time_delta(text).value) ELSE TotalMs(last_correct_delta)

\* C9: on_end_time_changed(new_time) leaves end_time at new_time and moves
\* start_time to new_time minus the current duration, the duration unchanged;
\* or, when that is below minimumDateTime, to minimumDateTime, the duration
\* becoming new_time - minimumDateTime.
C9_SetEndMovesStart ==
    [][lastOp' = "setEnd" =>
          IF end_time' - CurrentMs >= minimumDateTime
          THEN /\ start_time' = end_time' - CurrentMs
               /\ time_delta(text').ok
               /\ TotalMs(time_delta(text').value) = CurrentMs
          ELSE /\ start_time' = minimumDateTime
               /\ time_delta(text').ok
               /\ TotalMs(time_delta(text').value) = end_time' - minimumDateTime]_vars

\* C10: on_time_span_changed(delta) leaves end_time as it was; start_time
\* becomes end_time - delta, or minimumDateTime when that is below
\* minimumDateTime, and then time_span shows end_time - minimumDateTime.
C10_SetSpanKeepsEnd ==
    [][lastOp' = "setSpan" =>
          /\ end_time' = end_time
          /\ IF end_time - TotalMs(signal'[1]) >= minimumDateTime
             THEN start_time' = end_time - TotalMs(signal'[1])
             ELSE /\ start_time' = minimumDateTime
                  /\ time_delta(text').ok
                  /\ TotalMs(time_delta(text').value) = end_time - minimumDateTime]_vars

\* a committed span longer than end_time - minimumDateTime moved start_time
\* to minimumDateTime
C10_Witness ==
    /\ lastOp = "setSpan"
    /\ signal # <<>>
    /\ TotalMs(signal[1]) > end_time - minimumDateTime
    /\ start_time = minimumDateTime
    /\ end_time > minimumDateTime

\* C11: on_lim_changed commits start_time = xMin, end_time = xMax (to the
\* millisecond) and the span end_time - start_time, runs none of the handlers
\* of the three fields and pushes no X range: the chain an edit starts ends
\* with this one sync.
C11_ExternalRangeCommits ==
    [][lastOp' = "lim_changed" =>
          /\ start_time' = RoundMs(x_range[1])
          /\ end_time' = RoundMs(x_range[2])
          /\ time_delta(text').ok
          /\ TotalMs(time_delta(text').value) = end_time' - start_time'
          /\ signal' = <<>>
          /\ x_range' = x_range
          /\ ~lim_pending']_vars

(***************************************************************************)
(* Claims about the series of the Plot.                                    *)
(***************************************************************************)
\* C2: after every plot(), Plot.lines holds the series of that call and no
\* series of an earlier call, and each of them is on the canvas.
C2_PlotDiscardsSeries ==
    lastOp = "plot" =>
        \A i \in 1..Len(lines) : lines[i].plotNo = nplots /\ i \in canvas

\* the column named y_column_name has no time column before it in the header
NoTimeColumn(header, y_column_name) ==
    y_column_name # None /\ XColumn(header, HeaderIndex(header, y_column_name)) = 0

\* C3: plot() creates one series for every requested Y column, the i-th for
\* the i-th column and the i-th visibility, also for a column without a time
\* column before it (whose series has no data).
C3_SeriesPerRequestedColumn ==
    [][\A req \in PlotRequests :
          PlotCall(req) =>
              /\ Len(lines') - Len(lines) = Len(req.y_column_names)
              /\ \A i \in 1..Len(req.y_column_names) :
                    /\ lines'[Len(lines) + i].label = req.y_column_names[i]
                    /\ lines'[Len(lines) + i].visible
                          = PadVisibility(req.visibility, Len(req.y_column_names))[i]
                    /\ NoTimeColumn(req.data_model.header, req.y_column_names[i])
                          => lines'[Len(lines) + i].yData = <<>>]_vars

(***************************************************************************)
(* Claims about the Y range.                                               *)
(***************************************************************************)
\* the samples of a series inside the X window xr that are numbers
SliceOf(series, xr) ==
    {i \in 1..Len(series.yData) :
        /\ series.xData[i] # NaN /\ series.yData[i] # NaN
        /\ xr[1] <= 2 * series.xData[i] /\ 2 * series.xData[i] <= xr[2]}

\* the visible series of the chart with a sample of their slice inside the
\* Y range yr
Qualifying(xr, yr) ==
    {k \in canvas :
        /\ lines[k].visible
        /\ \E i \in SliceOf(lines[k], xr) :
              yr[1] <= 2 * lines[k].yData[i] /\ 2 * lines[k].yData[i] <= yr[2]}

\* the values of the slices of the qualifying series
QualifyingValues(xr, yr) ==
    UNION {{lines[k].yData[i] : i \in SliceOf(lines[k], xr)} : k \in Qualifying(xr, yr)}

\* C12: in the linear mode auto_range_y sets the Y range to the minimum and
\* the maximum over the whole X-visible slices of the series that have a
\* sample inside the old Y range (around the value when they are one value);
\* the other series have no influence.
C12_AutoRangeQualifying ==
    [][(lastOp' \in {"auto_range_y", "auto_range_y_again"} /\ ~logMode /\ Qualifying(x_range, y_range) # {}) =>
          LET mn == SetMin(QualifyingValues(x_range, y_range))
              mx == SetMax(QualifyingValues(x_range, y_range))
          IN  /\ ~raised'
              /\ mn < mx => y_range' = <<2 * mn, 2 * mx>>
              /\ mn = mx => (y_range'[1] < 2 * mn /\ 2 * mn < y_range'[2])]_vars

\* C13: with no qualifying series (no series, series without data, no
\* X-visible sample inside the old Y range) auto_range_y changes neither the
\* Y range nor the X range and raises nothing, in both modes.
C13_AutoRangeNoOp ==
    [][(lastOp' \in {"auto_range_y", "auto_range_y_again"} /\ Qualifying(x_range, y_range) = {}) =>
          /\ ~raised'
          /\ y_range' = y_range
          /\ x_range' = x_range]_vars

\* the strictly positive values of the slices of the qualifying series
PositiveValues(xr, yr) == {v \in QualifyingValues(xr, yr) : v > 0}

\* C14: in the log mode auto_range_y raises nothing; it sets the Y range to
\* log10 of the minimum and the maximum of the strictly positive samples of
\* the qualifying slices, and leaves it alone when there is none.
C14_AutoRangeLog ==
    [][(lastOp' \in {"auto_range_y", "auto_range_y_again"} /\ logMode) =>
          /\ ~raised'
          /\ PositiveValues(x_range, y_range) = {} => y_range' = y_range
          /\ PositiveValues(x_range, y_range) # {} =>
                LET mn == Log10(SetMin(PositiveValues(x_range, y_range)))
                    mx == Log10(SetMax(PositiveValues(x_range, y_range)))
                IN  mn < mx => y_range' = <<2 * mn, 2 * mx>>]_vars

(***************************************************************************)
(* Claims about replot and the roll of the time range.                     *)
(***************************************************************************)
\* the position in Plot.lines of the index-th series of the chart
SeriesAt(index) == CHOOSE p \in canvas : Cardinality({q \in canvas : q < p}) = index - 1

\* the X column the pairing rule gives the replot call c, 0 when it gives none
CallXColumn(c) == XColumn(c.data_model.header, HeaderIndex(c.data_model.header, c.y_column_name))

\* the replot call c names a series of the chart and a column with a time
\* column to its left
CallApplies(c) ==
    /\ c.y_column_name # None
    /\ c.index <= Cardinality(canvas)
    /\ CallXColumn(c) # 0

\* C15: a replot with roll less than 1 s after the last applied roll leaves
\* the X range and the time of the last roll alone; at or after 1 s both
\* ends of the X range move by the last new X sample minus the last X
\* sample the series had, and the time of the last roll becomes now.
C15_RollDebounced ==
    [][(lastOp' = "replot" /\ call'.roll /\ CallApplies(call')) =>
          LET series == lines[SeriesAt(call'.index)]
              shift  == Last(call'.data_model.data[CallXColumn(call')]) - Last(series.xData)
          IN  IF now - last_time_range_rolled < RollInterval \/ Len(series.xData) = 0
              THEN x_range' = x_range /\ last_time_range_rolled' = last_time_range_rolled
              ELSE /\ x_range' = <<x_range[1] + 2 * shift, x_range[2] + 2 * shift>>
                   /\ last_time_range_rolled' = now]_vars

\* C16: replot writes the new X and Y columns into the series it names,
\* whether the range rolled or not, leaves the data of every other series
\* alone, and a roll it applies uses the X data the series had before.
C16_ReplotOverwritesAfterRoll ==
    [][(lastOp' = "replot" /\ CallApplies(call')) =>
          LET k        == SeriesAt(call'.index)
              x_column == CallXColumn(call')
              y_column == HeaderIndex(call'.data_model.header, call'.y_column_name)
          IN  /\ lines'[k].xData = call'.data_model.data[x_column]
              /\ lines'[k].yData = call'.data_model.data[y_column]
              /\ \A j \in 1..Len(lines) : j # k => lines'[j] = lines[j]
              /\ last_time_range_rolled' # last_time_range_rolled =>
                    x_range'[1] - x_range[1] =
                        2 * (Last(call'.data_model.data[x_column]) - Last(lines[k].xData))]_vars

(***************************************************************************)
(* Claims about "View All" and the ranges plot() sets.                     *)
(***************************************************************************)
\* the series of the chart with an X sample that is a number
ChartSeries == {i \in canvas : GoodIndices(lines[i].xData) # {}}

\* C17: "View All" sets the X range to the least first finite X sample and
\* the greatest last finite X sample of the series of the chart, and every
\* finite X sample of every series lies inside it.
C17_ViewAllCoversSeries ==
    [][(lastOp' = "view_all" /\ ChartSeries # {}) =>
          LET xMin == SetMin({lines[i].xData[SetMin(GoodIndices(lines[i].xData))] : i \in ChartSeries})
              xMax == SetMax({lines[i].xData[SetMax(GoodIndices(lines[i].xData))] : i \in ChartSeries})
          IN  /\ xMin < xMax => x_range' = <<2 * xMin, 2 * xMax>>
              /\ \A i \in ChartSeries : \A v \in Finite(lines[i].xData) :
                    x_range'[1] <= 2 * v /\ 2 * v <= x_range'[2]]_vars

\* C18: after plot() the X range is the union of the finite X extents of the
\* series of the chart, each paired with its time column, and the Y range is
\* the minimum and the maximum of the Y data of its visible series, whatever
\* the Y range was before.
C18_PlotSetsRanges ==
    [][lastOp' = "plot" =>
          LET xs == UNION {Finite(lines'[i].xData) : i \in canvas'}
              ys == UNION {Finite(lines'[i].yData) : i \in {j \in canvas' : lines'[j].visible}}
          IN  /\ ~raised'
              /\ (xs # {} /\ SetMin(xs) < SetMax(xs)) => x_range' = <<2 * SetMin(xs), 2 * SetMax(xs)>>
              /\ (ys # {} /\ SetMin(ys) < SetMax(ys)) => y_range' = <<2 * SetMin(ys), 2 * SetMax(ys)>>
              /\ ys = {} => y_range' = y_range]_vars

(***************************************************************************)
(* Claims about validate().                                                *)
(***************************************************************************)
\* the fields of the text validate() has stripped
ValFields == Split(val.text)

\* the text ends in ':'
EndsInColon(t) == Len(t) > 0 /\ t[Len(t)] = ":"

\* C19: a stripped text of more than 4 fields that does not end in ':' is
\* Invalid, whatever the values of its fields.
C19_FiveFieldsInvalid ==
    (val.stage = "validated" /\ Len(ValFields) > 4 /\ ~EndsInColon(val.text))
        => val.state = "Invalid"

\* the field i of the stripped text, counted from the last one, parses:
\* the seconds as a real number, the others as whole numbers
FieldParses(i) ==
    LET field == ValFields[Len(ValFields) + 1 - i]
    IN  IF i = 1 THEN toDouble(field).ok
        ELSE IF i = 4 THEN toULongLong(field).ok
        ELSE toUShort(field).ok

\* seconds > 60, minutes > 60 or hours > 24 in a text whose fields all parse
FieldAboveLimit ==
    LET n == Len(ValFields)
    IN  \/ Above60(toDouble(ValFields[n]))
        \/ n >= 2 /\ toUShort(ValFields[n - 1]).value > 60
        \/ n >= 3 /\ toUShort(ValFields[n - 2]).value > 24

IsCommit(op) == op \in {"edit_finished", "step", "set"}

\* the fields of a text are within hours 0..23, minutes 0..59 and seconds
\* below 60
FieldsNormalized(t) ==
    LET parts == Split(t)
        n     == Len(parts)
    IN  /\ n <= 4
        /\ toDouble(parts[n]).ok /\ toDouble(parts[n]).whole < 60
        /\ n >= 2 => (toUShort(parts[n - 1]).ok /\ toUShort(parts[n - 1]).value <= 59)
        /\ n >= 3 => (toUShort(parts[n - 2]).ok /\ toUShort(parts[n - 2]).value <= 23)
        /\ n >= 4 => toULongLong(parts[n - 3]).ok

\* C21: after every commit (edit finished, step, set of the duration) the
\* text shows hours in 0..23, minutes in 0..59 and seconds below 60, and the
\* duration is not negative.
C21_CommitNormalized ==
    IsCommit(lastOp) =>
        /\ FieldsNormalized(text)
        /\ last_correct_delta.days >= 0

\* the characters of t that validate() keeps
RECURSIVE Retained(_)
Retained(t) ==
    IF Len(t) = 0 THEN <<>>
    ELSE (IF t[1] \in valid_characters THEN <<t[1]>> ELSE <<>>) \o Retained(Tail(t))

\* C22: validate() returns the text without the characters outside the
\* digits, ':' and the decimal point, and the cursor moved to the number of
\* kept characters that were before it, a position inside the stripped text.
C22_StripKeepsCursor ==
    val.stage = "validated" =>
        /\ val.text = Retained(val.input.text)
        /\ val.cursor_position = Len(Retained(SubSeq(val.input.text, 1, val.input.cursor_position)))
        /\ val.cursor_position \in 0..Len(val.text)

\* C23: _value_to_text leaves out the leading fields that are zero: the text
\* has 4 fields when days > 0, else 3 when hours > 0, else 2 when
\* minutes > 0, else the seconds alone.
C23_ShortestRepresentation ==
    fmt.stage \in {"formatted", "parsed", "reformatted"} =>
        Len(Split(fmt.text)) =
            IF fmt.d.days > 0 THEN 4
            ELSE IF fmt.d.seconds \div 3600 > 0 THEN 3
            ELSE IF (fmt.d.seconds \div 60) % 60 > 0 THEN 2
            ELSE 1

(***************************************************************************)
(* Claims about insert_text_after.                                         *)
(***************************************************************************)
\* the position i of s lies in a quoted segment, its quotes included
InQuotes(s, i) == \E p \in QuotePairs(QuoteIndices(s)) : p[1] <= i /\ i <= p[2]

\* s from the position i on, with `what` after every occurrence of `where`
\* that starts outside the quoted segments, taken from left to right
RECURSIVE Inserted(_, _, _, _)
Inserted(s, what, where, i) ==
    IF i >= Len(s) THEN <<>>
    ELSE IF i + Len(where) <= Len(s) /\ SubSeq(s, i + 1, i + Len(where)) = where /\ ~InQuotes(s, i)
    THEN where \o what \o Inserted(s, what, where, i + Len(where))
    ELSE <<s[i + 1]>> \o Inserted(s, what, where, i + 1)

\* C24: insert_text_after(s, what, where) returns s with `what` after every
\* occurrence of a `where` that is not empty, from left to right without
\* overlap, except those that start in a quoted segment of s; it returns s
\* itself when `where` does not occur.
C24_InsertOutsideQuotes ==
    (ins.stage = "returned" /\ Len(ins.where) > 0) =>
        ins.s = Inserted(ins.input, ins.what, ins.where, 0)

\* C28: insert_text_after returns for every s, what and where.
C28_InsertTerminates == <>(ins.stage = "returned")

(***************************************************************************)
(* Claims about the blocked signals, the Y range and replot.               *)
(***************************************************************************)
\* C25: after every handler of start_time, end_time, time_span and of the
\* range of the chart, left normally or by an exception, no widget has its
\* signals blocked.
C25_NoWidgetLeftBlocked == blocked = {}

Appends(c, series) ==
    LET x_data == c.data_model.data[CallXColumn(c)]
    IN  /\ Len(x_data) >= Len(series.xData)
        /\ \A i \in 1..Len(series.xData) : x_data[i] = series.xData[i]

VisibleValues == UNION {Finite(lines'[i].yData) : i \in {j \in canvas' : lines'[j].visible}}

\* C29: a Y range that plot() or auto_range_y() sets in the linear mode has
\* both ends among the Y samples of the visible series of the chart, or one
\* of these samples in its middle when they are all the same, and
\* set_line_visible changes the visible flag of one series and neither the X
\* range, nor the Y range, nor the data of any series.
C29_HiddenSeriesNoInfluence ==
    [][/\ (lastOp' \in {"plot", "auto_range_y", "auto_range_y_again"} /\ ~logMode'
             /\ y_range' # y_range) =>
             \/ \A e \in 1..2 : \E v \in VisibleValues : y_range'[e] = 2 * v
             \/ \E v \in VisibleValues : y_range'[1] + y_range'[2] = 4 * v
       /\ lastOp' = "set_line_visible" =>
             /\ x_range' = x_range /\ y_range' = y_range
             /\ Len(lines') = Len(lines)
             /\ \A i \in 1..Len(lines) :
                   lines'[i].xData = lines[i].xData /\ lines'[i].yData = lines[i].yData]_vars


\* C30: a replot whose Y column name is None, whose index is not below the
\* number of series of the chart, or whose Y column has no time column
\* before it changes no data of any series, no view range and not the time
\* of the last roll.
C30_ReplotNoOp ==
    [][(lastOp' = "replot" /\ ~CallApplies(call')) =>
          /\ lines' = lines
          /\ x_range' = x_range /\ y_range' = y_range
          /\ last_time_range_rolled' = last_time_range_rolled]_vars

====
